---- MODULE Spec2Model ----
(***************************************************************************)
(* hurdles::Barrier (src/src/lib.rs): a counter-based, sense-reversing     *)
(* centralized barrier.  One BarrierInner {gsense, count, max} is shared   *)
(* by every handle; each handle (struct Barrier) carries its private       *)
(* lsense and used flag.  Every atomic access of wait() is one step.       *)
(***************************************************************************)
EXTENDS Integers, Sequences, FiniteSets, TLC

(* ------------------------------ bounds --------------------------------- *)

\* largest capacity n passed to Barrier::new
MaxN == 2

\* largest number of handles (the original and its clones) that ever exist
MaxHandles == 3

\* largest number of wait calls made on one handle
MaxRounds == 3

\* width of usize in bits; 16 is the narrowest usize of any Rust target
UsizeBits == 16

Handles == 0 .. (MaxHandles - 1)

Modulus == 2 ^ UsizeBits

(* ------------------------------- state --------------------------------- *)

VARIABLES
    max,        \* BarrierInner.max
    count,      \* BarrierInner.count   (AtomicUsize)
    gsense,     \* BarrierInner.gsense  (AtomicBool)
    handles,    \* the handles created so far (handle 0 is Barrier::new's)
    lsense,     \* Barrier.lsense of each handle
    used,       \* Barrier.used of each handle
    pc,         \* where each handle's thread stands inside wait
    spun,       \* whether the current wait call has gone round its spin loop
    calls,      \* number of wait calls begun on each handle
    res,        \* the BarrierWaitResults each handle's wait calls returned
    lastClone   \* the latest clone call: its source, whether it panicked, and
                \* whether some handle of the barrier had waited by then

vars == <<max, count, gsense, handles, lsense, used, pc, spun, calls, res,
          lastClone>>

NoClone == [src |-> -1, panicked |-> FALSE, waited |-> FALSE]

\* the handles on which wait has been called
Users == {h \in handles : calls[h] > 0}

(* --------------------------- pure functions ---------------------------- *)

\* the tuple struct BarrierWaitResult(bool)
BarrierWaitResult(b) == <<b>>

\* BarrierWaitResult::is_leader: self.0
is_leader(r) == r[1]

\* a wait that leaves lsense as it was
FlipForgotten(b) == b

\* !self.lsense
Flip(b) == ~b

\* a subtraction that stops at 0
saturating_sub(x, y) == IF x >= y THEN x - y ELSE 0

\* the new value fetch_sub(1) leaves in an AtomicUsize: wrapping subtraction
wrapping_sub(x, y) == (x - y) % Modulus

\* a mis-compare of the value fetch_sub returned
IsLastOffByOne(prev) == prev = 2

\* fetch_sub(1) == 1: this call is the last to reach the barrier
IsLast(prev) == prev = 1

(* ------------------------------- Init ---------------------------------- *)

\* Barrier::new(n), n >= 1
Init ==
    /\ max \in 1 .. MaxN
    /\ count = max
    /\ gsense = TRUE
    /\ handles = {0}
    /\ lsense = [h \in Handles |-> TRUE]
    /\ used = [h \in Handles |-> FALSE]
    /\ pc = [h \in Handles |-> "idle"]
    /\ spun = [h \in Handles |-> FALSE]
    /\ calls = [h \in Handles |-> 0]
    /\ res = [h \in Handles |-> <<>>]
    /\ lastClone = NoClone

(* ------------------------------ actions -------------------------------- *)

\* a clone that lacks the assertion
CloneUnchecked(s) ==
    /\ s \in handles
    /\ pc[s] = "idle"
    /\ Cardinality(handles) < MaxHandles
    /\ LET new == Cardinality(handles) IN
         /\ handles' = handles \cup {new}
         /\ lsense' = [lsense EXCEPT ![new] = lsense[s]]
         /\ used' = [used EXCEPT ![new] = FALSE]
    /\ lastClone' = [src |-> s, panicked |-> FALSE, waited |-> Users # {}]
    /\ UNCHANGED <<max, count, gsense, pc, spun, calls, res>>

\* a clone whose handle starts with the opposite sense
CloneFlipped(s) ==
    /\ s \in handles
    /\ pc[s] = "idle"
    /\ IF used[s]
       THEN /\ lastClone' = [src |-> s, panicked |-> TRUE, waited |-> Users # {}]
            /\ UNCHANGED <<handles, lsense, used>>
       ELSE /\ Cardinality(handles) < MaxHandles
            /\ LET new == Cardinality(handles) IN
                 /\ handles' = handles \cup {new}
                 /\ lsense' = [lsense EXCEPT ![new] = ~lsense[s]]
                 /\ used' = [used EXCEPT ![new] = FALSE]
            /\ lastClone' = [src |-> s, panicked |-> FALSE, waited |-> Users # {}]
    /\ UNCHANGED <<max, count, gsense, pc, spun, calls, res>>

\* a clone that registers the new handle as one more participant
CloneCounting(s) ==
    /\ s \in handles
    /\ pc[s] = "idle"
    /\ IF used[s]
       THEN /\ lastClone' = [src |-> s, panicked |-> TRUE, waited |-> Users # {}]
            /\ UNCHANGED <<handles, lsense, used, max, count>>
       ELSE /\ Cardinality(handles) < MaxHandles
            /\ LET new == Cardinality(handles) IN
                 /\ handles' = handles \cup {new}
                 /\ lsense' = [lsense EXCEPT ![new] = lsense[s]]
                 /\ used' = [used EXCEPT ![new] = FALSE]
            /\ lastClone' = [src |-> s, panicked |-> FALSE, waited |-> Users # {}]
            /\ max' = max + 1
            /\ count' = (count + 1) % Modulus
    /\ UNCHANGED <<gsense, pc, spun, calls, res>>

\* <Barrier as Clone>::clone(&self): assert!(!self.used), then a handle
\* with used = false, the source's lsense and the same inner.  clone borrows
\* &self and wait borrows &mut self, so the source is not inside wait.  A
\* failed assertion panics: no handle is made and no field is written.
Clone(s) ==
    /\ s \in handles
    /\ pc[s] = "idle"
    /\ IF used[s]
       THEN /\ lastClone' = [src |-> s, panicked |-> TRUE, waited |-> Users # {}]
            /\ UNCHANGED <<handles, lsense, used>>
       ELSE /\ Cardinality(handles) < MaxHandles
            /\ LET new == Cardinality(handles) IN
                 /\ handles' = handles \cup {new}
                 /\ lsense' = [lsense EXCEPT ![new] = lsense[s]]
                 /\ used' = [used EXCEPT ![new] = FALSE]
            /\ lastClone' = [src |-> s, panicked |-> FALSE, waited |-> Users # {}]
    /\ UNCHANGED <<max, count, gsense, pc, spun, calls, res>>

\* a wait that forgets to mark the handle used
WaitEnterNoMark(h) ==
    /\ h \in handles
    /\ pc[h] = "idle"
    /\ calls[h] < MaxRounds
    /\ lsense' = [lsense EXCEPT ![h] = Flip(lsense[h])]
    /\ pc' = [pc EXCEPT ![h] = "fetch_sub"]
    /\ spun' = [spun EXCEPT ![h] = FALSE]
    /\ calls' = [calls EXCEPT ![h] = calls[h] + 1]
    /\ UNCHANGED <<max, count, gsense, handles, used, res, lastClone>>

\* wait, lines 182-183: self.used = true; self.lsense = !self.lsense
WaitEnter(h) ==
    /\ h \in handles
    /\ pc[h] = "idle"
    /\ calls[h] < MaxRounds
    /\ used' = [used EXCEPT ![h] = TRUE]
    /\ lsense' = [lsense EXCEPT ![h] = Flip(lsense[h])]
    /\ pc' = [pc EXCEPT ![h] = "fetch_sub"]
    /\ spun' = [spun EXCEPT ![h] = FALSE]
    /\ calls' = [calls EXCEPT ![h] = calls[h] + 1]
    /\ UNCHANGED <<max, count, gsense, handles, res, lastClone>>

\* a fetch_sub whose new value, not its returned old value, is compared
FetchSubNewValue(h) ==
    /\ pc[h] = "fetch_sub"
    /\ count' = wrapping_sub(count, 1)
    /\ pc' = [pc EXCEPT ![h] = IF IsLast(count') THEN "store_count" ELSE "spin"]
    /\ UNCHANGED <<max, gsense, handles, lsense, used, spun, calls, res,
                   lastClone>>

\* wait, line 184: count.fetch_sub(1, SeqCst) == 1 chooses the branch
FetchSub(h) ==
    /\ pc[h] = "fetch_sub"
    /\ count' = wrapping_sub(count, 1)
    /\ pc' = [pc EXCEPT ![h] = IF IsLast(count) THEN "store_count" ELSE "spin"]
    /\ UNCHANGED <<max, gsense, handles, lsense, used, spun, calls, res,
                   lastClone>>

\* a leader that does not reset the counter
StoreCountSkipped(h) ==
    /\ pc[h] = "store_count"
    /\ pc' = [pc EXCEPT ![h] = "store_gsense"]
    /\ UNCHANGED <<max, count, gsense, handles, lsense, used, spun, calls,
                   res, lastClone>>

\* wait, lines 186-188: count.store(max, SeqCst)
StoreCount(h) ==
    /\ pc[h] = "store_count"
    /\ count' = max
    /\ pc' = [pc EXCEPT ![h] = "store_gsense"]
    /\ UNCHANGED <<max, gsense, handles, lsense, used, spun, calls, res,
                   lastClone>>

\* a leader branch that lacks its early return and falls into the wait loop
StoreGsenseThenSpin(h) ==
    /\ pc[h] = "store_gsense"
    /\ gsense' = lsense[h]
    /\ pc' = [pc EXCEPT ![h] = "spin"]
    /\ UNCHANGED <<max, count, handles, lsense, used, spun, calls, res,
                   lastClone>>

\* a leader that never publishes the new sense
StoreGsenseSkipped(h) ==
    /\ pc[h] = "store_gsense"
    /\ pc' = [pc EXCEPT ![h] = "idle"]
    /\ res' = [res EXCEPT ![h] = Append(res[h], BarrierWaitResult(TRUE))]
    /\ UNCHANGED <<max, count, gsense, handles, lsense, used, spun, calls,
                   lastClone>>

\* wait, lines 189-192: gsense.store(lsense, SeqCst); BarrierWaitResult(true)
StoreGsense(h) ==
    /\ pc[h] = "store_gsense"
    /\ gsense' = lsense[h]
    /\ pc' = [pc EXCEPT ![h] = "idle"]
    /\ res' = [res EXCEPT ![h] = Append(res[h], BarrierWaitResult(TRUE))]
    /\ UNCHANGED <<max, count, handles, lsense, used, spun, calls, lastClone>>

\* wait, lines 195-200: one evaluation of the loop condition
\* gsense.load(SeqCst) != lsense; either wait.spin() or BarrierWaitResult(false)
SpinLoad(h) ==
    /\ pc[h] = "spin"
    /\ IF gsense # lsense[h]
       THEN /\ spun' = [spun EXCEPT ![h] = TRUE]
            /\ UNCHANGED <<pc, res>>
       ELSE /\ pc' = [pc EXCEPT ![h] = "idle"]
            /\ res' = [res EXCEPT
                         ![h] = Append(res[h], BarrierWaitResult(FALSE))]
            /\ UNCHANGED spun
    /\ UNCHANGED <<max, count, gsense, handles, lsense, used, calls, lastClone>>

\* the leader's two stores in the opposite order: release, then reset
LeaderStoreSwapped(h) ==
    \/ /\ pc[h] = "store_count"
       /\ gsense' = lsense[h]
       /\ pc' = [pc EXCEPT ![h] = "store_gsense"]
       /\ UNCHANGED <<max, count, handles, lsense, used, spun, calls, res,
                      lastClone>>
    \/ /\ pc[h] = "store_gsense"
       /\ count' = max
       /\ pc' = [pc EXCEPT ![h] = "idle"]
       /\ res' = [res EXCEPT ![h] = Append(res[h], BarrierWaitResult(TRUE))]
       /\ UNCHANGED <<max, gsense, handles, lsense, used, spun, calls,
                      lastClone>>

\* wait, lines 185-192: the branch of the last thread to reach the barrier
LeaderStore(h) == StoreCount(h) \/ StoreGsense(h)

(* ------------------------------ callers -------------------------------- *)

\* the handles' users keep to the barrier's contract: at most max distinct
\* handles ever wait (the others, like the original of the crate's example,
\* are only cloned)
Participant(h) == calls[h] > 0 \/ Cardinality(Users) < max

Next ==
    \/ \E s \in Handles : Clone(s)
    \/ \E h \in Handles : Participant(h) /\ WaitEnter(h)
    \/ \E h \in Handles : FetchSub(h)
    \/ \E h \in Handles : LeaderStore(h)
    \/ \E h \in Handles : SpinLoad(h)

Spec == Init /\ [][Next]_vars

\* the steps a thread takes inside wait once it has entered
Step(h) == FetchSub(h) \/ LeaderStore(h) \/ SpinLoad(h)

\* every thread that is inside wait keeps being scheduled: wait runs on an
\* OS thread, and SpinWait::spin yields to the scheduler after a few turns
FairSpec == Spec /\ \A h \in Handles : WF_vars(Step(h))

\* Barrier::new(n) for any n: the code does not reject n = 0
InitZero ==
    /\ max \in 0 .. MaxN
    /\ count = max
    /\ gsense = TRUE
    /\ handles = {0}
    /\ lsense = [h \in Handles |-> TRUE]
    /\ used = [h \in Handles |-> FALSE]
    /\ pc = [h \in Handles |-> "idle"]
    /\ spun = [h \in Handles |-> FALSE]
    /\ calls = [h \in Handles |-> 0]
    /\ res = [h \in Handles |-> <<>>]
    /\ lastClone = NoClone

\* a barrier of capacity 0 has no contract a caller could keep to: any of
\* its handles may wait
ParticipantZero(h) == max = 0 \/ Participant(h)

NextZero ==
    \/ \E s \in Handles : Clone(s)
    \/ \E h \in Handles : ParticipantZero(h) /\ WaitEnter(h)
    \/ \E h \in Handles : FetchSub(h)
    \/ \E h \in Handles : LeaderStore(h)
    \/ \E h \in Handles : SpinLoad(h)

SpecZero == InitZero /\ [][NextZero]_vars

(* ----------------------- rounds, as the calls see them ----------------- *)

\* number of fetch_sub decrements handle h has performed
Decs(h) == IF pc[h] = "fetch_sub" THEN calls[h] - 1 ELSE calls[h]

\* the handles that have begun their k-th wait call
Called(k) == {h \in handles : calls[h] >= k}

\* the handles that have performed the decrement of their k-th wait call
Arrived(k) == {h \in handles : Decs(h) >= k}

\* the handles whose k-th wait call has returned
Returned(k) == {h \in handles : Len(res[h]) >= k}

\* the handles whose k-th wait call returned is_leader() == true
Leaders(k) == {h \in Returned(k) : is_leader(res[h][k])}

\* a handle inside wait whose next step is not one more turn of the spin loop
Progress(h) ==
    \/ pc[h] \in {"fetch_sub", "store_count", "store_gsense"}
    \/ pc[h] = "spin" /\ gsense = lsense[h]

Rounds == 1 .. MaxRounds

(* ------------------------------- claims -------------------------------- *)

\* C1: no early release.  Whenever some handle's k-th wait call has
\* returned, all max handles have performed their decrement of round k; so
\* with fewer than max arrivals in a round none of its calls has returned.
NoEarlyRelease ==
    \A k \in Rounds : Returned(k) # {} => Cardinality(Arrived(k)) = max

\* round 1 is over, and in round 2 all but one handle have arrived and spun,
\* and none of them has returned
NoEarlyReleaseWitness ==
    /\ max >= 2
    /\ Cardinality(Returned(1)) = max
    /\ Returned(2) = {}
    /\ Cardinality({h \in handles : /\ calls[h] = 2
                                    /\ pc[h] = "spin"
                                    /\ spun[h]}) = max - 1

\* C2: exactly one leader per round.  Among the k-th wait calls at most one
\* has returned is_leader() == true, and once all max of them have returned
\* exactly one has, the other max - 1 having returned false.
OneLeaderPerRound ==
    \A k \in Rounds :
        /\ Cardinality(Leaders(k)) <= 1
        /\ Cardinality(Returned(k)) = max =>
              /\ Cardinality(Leaders(k)) = 1
              /\ Cardinality(Returned(k) \ Leaders(k)) = max - 1

\* a round of at least two handles has completed
OneLeaderPerRoundWitness ==
    /\ max >= 2
    /\ Cardinality(Returned(1)) = max
    /\ Cardinality(Leaders(1)) = 1

\* handle h is inside a wait call of a round in which all max handles have
\* called wait
Owed(h) ==
    /\ h \in handles
    /\ pc[h] # "idle"
    /\ Cardinality(Called(calls[h])) = max

\* C3: release liveness.  Once all max handles have called wait in a round,
\* a state follows in which each of these calls has returned (no handle is
\* owed a return any more; as Called(k) only grows, this makes every owed
\* call return); and while a call of such a round is still inside wait,
\* some thread has a step other than spinning.
WaitReturns ==
    /\ [](\A k \in Rounds :
            (Cardinality(Called(k)) = max
               /\ \E h \in handles : calls[h] = k /\ pc[h] # "idle")
            => \E h \in handles : Progress(h))
    /\ (\E h \in Handles : Owed(h)) ~> (\A h \in Handles : ~Owed(h))

\* a waiter that had to spin has been released and has returned
WaitReturnsWitness ==
    \E h \in handles :
        /\ pc[h] = "idle"
        /\ Len(res[h]) >= 1
        /\ ~is_leader(res[h][Len(res[h])])
        /\ spun[h]
        /\ Cardinality(Called(Len(res[h]))) = max

\* round k is over: all max k-th calls have returned, one of them as leader
RoundDone(k) ==
    /\ Cardinality(Returned(k)) = max
    /\ Cardinality(Leaders(k)) = 1

\* C4: reusability without reset.  Whenever all max handles have begun
\* their k-th call for some round k that is not over, a state follows in
\* which every such round is over (all its calls returned, exactly one as
\* leader); and no call of round k + 1 returns while a call of round k has
\* not returned.
Reusable ==
    /\ (\E k \in Rounds : Cardinality(Called(k)) = max /\ ~RoundDone(k))
          ~> (\A k \in Rounds : Cardinality(Called(k)) = max => RoundDone(k))
    /\ [](\A k \in Rounds :
            Returned(k + 1) # {} => Cardinality(Returned(k)) = max)

\* fast re-entry: a handle is already spinning in round 2 while a waiter of
\* round 1 has not yet observed the release of round 1
ReusableWitness ==
    \E f, s \in handles :
        /\ calls[f] = 2 /\ pc[f] = "spin"
        /\ calls[s] = 1 /\ pc[s] = "spin"

\* a step that is a call of clone
CloneStep == lastClone' # lastClone \/ handles' # handles

\* C5: clone after use is fatal.  A clone call on a handle on which wait
\* has been called panics and yields no handle; a clone call on a handle
\* that has never waited does not panic and yields a handle.
CloneAfterUseFatal ==
    [][CloneStep =>
         IF calls[lastClone'.src] >= 1
         THEN lastClone'.panicked /\ handles' = handles
         ELSE ~lastClone'.panicked /\ handles' # handles]_vars

\* a clone call on a handle that has waited has panicked
CloneAfterUseFatalWitness ==
    /\ lastClone.panicked
    /\ lastClone.src \in handles
    /\ calls[lastClone.src] >= 1

\* C6, as claimed: every handle is created before the first wait call on
\* any handle of the barrier.
AllHandlesBeforeFirstWait ==
    [][handles' # handles => \A h \in handles : calls[h] = 0]_vars

\* C6, amended: every handle is created by a clone call on a source handle
\* on which wait had never been called, and starts unused; this may happen
\* after other handles of the barrier have waited.
HandlesFromUnusedSource ==
    [][handles' # handles =>
         /\ lastClone'.src \in handles
         /\ calls[lastClone'.src] = 0
         /\ ~lastClone'.panicked
         /\ \A h \in handles' \ handles : calls'[h] = 0 /\ ~used'[h]]_vars

\* a handle has been created after some handle of the barrier had waited
HandlesFromUnusedSourceWitness ==
    /\ lastClone.src \in handles
    /\ ~lastClone.panicked
    /\ lastClone.waited
    /\ calls[lastClone.src] = 0

\* C7: capacity 1.  Every wait call on a barrier of capacity 1 has returned
\* is_leader() == true, and none is in, or has made a turn of, the spin loop.
CapacityOneAlwaysLeader ==
    max = 1 =>
        \A h \in handles :
            /\ \A i \in 1 .. Len(res[h]) : is_leader(res[h][i])
            /\ pc[h] # "spin"
            /\ ~spun[h]

\* two rounds on a barrier of capacity 1
CapacityOneAlwaysLeaderWitness ==
    /\ max = 1
    /\ \E h \in handles : Len(res[h]) >= 2 /\ is_leader(res[h][2])

\* C8: the participant count is the capacity.  clone changes neither max nor
\* count, and, whatever the number of handles that never wait, round k has
\* been released exactly when max distinct handles have arrived in it and
\* the leader has done its stores.
CapacityNotHandleCount ==
    [][/\ handles' # handles => max' = max /\ count' = count
       /\ \A k \in Rounds :
             (Leaders(k) # {})' <=>
                (/\ Cardinality(Arrived(k)) = max
                 /\ ~\E h \in handles :
                       /\ calls[h] = k
                       /\ pc[h] \in {"store_count", "store_gsense"})']_vars

\* a round has been released while more than max handles exist, one of
\* which has never waited
CapacityNotHandleCountWitness ==
    /\ Cardinality(handles) > max
    /\ \E h \in handles : calls[h] = 0
    /\ Leaders(1) # {}
    /\ Cardinality(Arrived(1)) = max

\* C9: counter bounds.  0 <= count <= max in every state, and no decrement
\* is about to be applied to a counter that is 0.
CounterBounds ==
    /\ 0 <= count
    /\ count <= max
    /\ \A h \in handles : pc[h] = "fetch_sub" => count >= 1

\* the window between the leader's decrement and its reset of the counter
CounterBoundsWitness ==
    /\ count = 0
    /\ \E h \in handles : pc[h] = "store_count"

\* C10: the reset precedes the release.  Whenever gsense is flipped the
\* counter already equals max, and no decrement is applied while a leader of
\* an earlier round has yet to reset the counter.
ResetBeforeRelease ==
    [][/\ gsense' # gsense => count = max /\ count' = max
       /\ \A h \in handles :
             (pc[h] = "fetch_sub" /\ pc'[h] # "fetch_sub") =>
                ~\E g \in handles : pc[g] = "store_count" /\ calls[g] < calls[h]
      ]_vars

\* round 1 has been released and a decrement of round 2 has been applied
\* to the reset counter
ResetBeforeReleaseWitness ==
    /\ Leaders(1) # {}
    /\ gsense = FALSE
    /\ \E g \in handles : calls[g] = 2 /\ pc[g] = "spin"
    /\ count = max - 1

\* the rounds whose leader has returned
CompletedRounds == {k \in Rounds : Leaders(k) # {}}

\* handle h takes a step
Acts(h) ==
    \/ pc'[h] # pc[h]
    \/ spun'[h] # spun[h]
    \/ calls'[h] # calls[h]
    \/ res'[h] # res[h]

\* C11: single writer of the release.  gsense has flipped once per completed
\* round; it is flipped, and count is reset, only by the one handle of the
\* round whose fetch_sub returned 1; every other change of the shared state
\* is a decrement of count by a call in its fetch_sub, and a call in its
\* spin loop writes nothing shared.
SingleWriter ==
    [][/\ max' = max
       /\ (gsense = (Cardinality(CompletedRounds) % 2 = 0))'
       /\ (Cardinality({h \in handles :
                          pc[h] \in {"store_count", "store_gsense"}}) <= 1)'
       /\ gsense' # gsense =>
             \E h \in handles :
                /\ pc[h] = "store_gsense" /\ pc'[h] = "idle"
                /\ Leaders(calls[h]) = {}
                /\ Leaders(calls[h])' = {h}
       /\ count' # count =>
             \E h \in handles :
                \/ /\ pc[h] = "store_count" /\ pc'[h] = "store_gsense"
                   /\ count' = max
                \/ /\ pc[h] = "fetch_sub" /\ pc'[h] # "fetch_sub"
                   /\ count' = count - 1
                   /\ gsense' = gsense
       /\ \A h \in handles :
             (Acts(h) /\ pc[h] \in {"idle", "spin"}) =>
                count' = count /\ gsense' = gsense
      ]_vars

\* two rounds have completed, gsense is back at its first value, and a
\* non-leader that spun has returned
SingleWriterWitness ==
    /\ Cardinality(CompletedRounds) = 2
    /\ gsense = TRUE
    /\ \E h \in handles :
          /\ Len(res[h]) = 2 /\ ~is_leader(res[h][2]) /\ spun[h]
          /\ pc[h] = "idle"

\* C12: local sense agreement.  Handles in the same round hold the same
\* lsense; until the round's release store that value differs from gsense;
\* and the release store sets gsense to the lsense of every waiter that is
\* spinning in that round.
LocalSenseAgreement ==
    /\ [](/\ \A h, g \in Users :
                calls[h] = calls[g] => lsense[h] = lsense[g]
          /\ \A h \in Users :
                (pc[h] # "idle" /\ Leaders(calls[h]) = {})
                   => lsense[h] # gsense)
    /\ [][gsense' # gsense =>
            \E l \in handles :
               /\ pc[l] = "store_gsense"
               /\ gsense' = lsense[l]
               /\ \A g \in Users :
                     (g # l /\ max >= 2) =>
                        /\ pc[g] = "spin" /\ calls[g] = calls[l]
                        /\ gsense' = lsense[g]]_vars

\* a second round is about to be released: the leader is at its gsense
\* store and a waiter of that round is spinning for the leader's lsense
LocalSenseAgreementWitness ==
    \E l, g \in handles :
        /\ pc[l] = "store_gsense" /\ calls[l] = 2
        /\ pc[g] = "spin" /\ calls[g] = 2 /\ spun[g]
        /\ lsense[g] = lsense[l]
        /\ gsense # lsense[g]

\* handle h performs the decrement of its current wait call
Decrements(h) == pc[h] = "fetch_sub" /\ pc'[h] # "fetch_sub"

\* handle h returns from its current wait call
Returns(h) == Len(res'[h]) = Len(res[h]) + 1

\* C13: the leader is the last arriver.  A decrement takes the leader branch
\* exactly when the max - 1 other decrements of its round precede it, and a
\* call returns is_leader() == true exactly when it took that branch.  (That
\* any handle can be the leader is a statement about which states are
\* reachable: see the witness.)
LeaderIsLastArriver ==
    [][\A h \in handles :
          /\ Decrements(h) =>
                /\ pc'[h] \in {"store_count", "spin"}
                /\ pc'[h] = "store_count" <=>
                      Cardinality(Arrived(calls[h]) \ {h}) = max - 1
          /\ Returns(h) =>
                /\ Len(res'[h]) = calls[h]
                /\ is_leader(res'[h][calls[h]]) <=> pc[h] = "store_gsense"
                /\ is_leader(res'[h][calls[h]]) =>
                      \A g \in Users : Decs(g) >= calls[h]
      ]_vars

\* the original handle and a clone of it have each been the leader of a
\* round: the leader is not fixed by the handle's identity
LeaderIsLastArriverWitness ==
    /\ max >= 2
    /\ Cardinality(Users) = max
    /\ 0 \in Users
    /\ \A h \in Users : \E k \in Rounds : h \in Leaders(k)

\* handle h's thread can take a step that moves it on inside wait
CanAdvance(h) == ENABLED (Step(h) /\ pc'[h] # pc[h])

\* C14: the leader never waits.  A call in the leader branch can always
\* take its next step, whatever the other threads do, has not gone round the
\* spin loop, and goes through its two stores straight to its return with
\* is_leader() == true, never through the loop that loads gsense; a call
\* inside wait that cannot move on is in the spin loop.
LeaderNeverWaits ==
    /\ [](\A h \in handles :
            /\ pc[h] \in {"store_count", "store_gsense"} =>
                  CanAdvance(h) /\ ~spun[h]
            /\ (pc[h] # "idle" /\ ~CanAdvance(h)) =>
                  pc[h] = "spin" /\ gsense # lsense[h])
    /\ [][\A h \in handles :
            /\ pc'[h] = "store_count" /\ pc[h] # "store_count" =>
                  pc[h] = "fetch_sub"
            /\ pc[h] = "store_count" /\ Acts(h) =>
                  pc'[h] = "store_gsense" /\ count' = max
            /\ pc[h] = "store_gsense" /\ Acts(h) =>
                  /\ pc'[h] = "idle"
                  /\ gsense' = lsense[h]
                  /\ Returns(h)
                  /\ is_leader(res'[h][calls[h]])
                  /\ ~spun'[h]
            /\ pc[h] = "spin" => pc'[h] \in {"spin", "idle"}
         ]_vars

\* a leader has returned, without a turn of the spin loop, while a waiter
\* of its round is still in the loop
LeaderNeverWaitsWitness ==
    \E l, g \in handles :
        /\ pc[l] = "idle"
        /\ Len(res[l]) = calls[l]
        /\ calls[l] >= 1
        /\ is_leader(res[l][calls[l]])
        /\ ~spun[l]
        /\ pc[g] = "spin" /\ calls[g] = calls[l] /\ spun[g]

\* C15: effect and frame of clone.  A clone call on an unused handle adds
\* exactly one handle, with the source's lsense and used = false, which can
\* be cloned in turn; it leaves every other handle's lsense and used flag,
\* and count, gsense and max, as they were.  (All handles refer to the one
\* BarrierInner of the model.)
CloneEffect ==
    [][(CloneStep /\ ~used[lastClone'.src]) =>
         LET s == lastClone'.src
             new == handles' \ handles
         IN  /\ s \in handles
             /\ handles \subseteq handles'
             /\ Cardinality(new) = 1
             /\ \A n \in new :
                   /\ lsense'[n] = lsense[s]
                   /\ used'[n] = FALSE
                   /\ pc'[n] = "idle"
                   /\ calls'[n] = 0
             /\ \A h \in handles :
                   lsense'[h] = lsense[h] /\ used'[h] = used[h]
             /\ count' = count
             /\ gsense' = gsense
             /\ max' = max]_vars

\* a clone has itself been cloned, after a round has flipped gsense
CloneEffectWitness ==
    /\ lastClone.src >= 1
    /\ ~lastClone.panicked
    /\ gsense = FALSE
    /\ \E n \in handles : n > lastClone.src /\ ~used[n]
                          /\ lsense[n] = lsense[lastClone.src]

\* C16: bounded round skew.  The numbers of returned wait calls of any two
\* of the max handles that use the barrier differ by at most 1, and a handle
\* that has performed its decrement of round k + 2 implies that every user
\* has returned from round k.
BoundedSkew ==
    /\ \A h, g \in Users : Len(res[h]) - Len(res[g]) <= 1
    /\ \A h \in Users : \A k \in Rounds :
          Decs(h) >= k + 2 => \A g \in Users : Len(res[g]) >= k

\* a handle has decremented in round 3 while another has returned from
\* round 1 only and is still inside round 2
BoundedSkewWitness ==
    \E h, g \in Users :
        /\ Decs(h) = 3
        /\ Len(res[h]) = 2
        /\ Len(res[g]) = 1
        /\ pc[g] = "spin"

\* C17: capacity 0.  Barrier::new(0) is a state of the program like any
\* other; on such a barrier a decrement of count = 0 leaves 2^w - 1 and
\* goes to the spin loop, no call is ever in the leader branch, gsense is
\* never stored, and a call that is in the spin loop stays there and never
\* returns.
CapacityZero ==
    /\ [](max = 0 =>
            /\ gsense = TRUE
            /\ \A h \in handles :
                  /\ pc[h] \notin {"store_count", "store_gsense"}
                  /\ res[h] = <<>>
                  /\ calls[h] <= 1
                  /\ pc[h] # "idle" => lsense[h] # gsense)
    /\ [][max = 0 =>
            \A h \in handles :
               /\ (Decrements(h) /\ count = 0) =>
                     count' = Modulus - 1 /\ pc'[h] = "spin"
               /\ Decrements(h) =>
                     /\ count' = (Modulus - Cardinality(Arrived(1))) - 1
                     /\ pc'[h] = "spin"
               /\ pc[h] = "spin" => pc'[h] = "spin"]_vars

\* on a barrier of capacity 0 the first wait has wrapped count to 2^w - 1
\* and has gone round the spin loop
CapacityZeroWitness ==
    /\ max = 0
    /\ count = Modulus - 1
    /\ \E h \in handles : pc[h] = "spin" /\ spun[h] /\ calls[h] = 1
    /\ Cardinality(Users) = 1
====
